---------------------------- MODULE Spec2Model ----------------------------
(***************************************************************************)
(* Disaster Response Coordination Platform: the enrichment resolution and  *)
(* delivery subsystem of the backend (TTL cache on the Supabase `cache`    *)
(* table, the geocode / verify-image / official-updates handlers with      *)
(* their providers and mock fallbacks, and the Socket.IO hub).             *)
(*                                                                         *)
(* Time is the wall clock in seconds (Date.now() / 1000).  A JSON array is *)
(* carried as a record [list |-> <<...>>] so that every cached value and   *)
(* every response body is a record.                                        *)
(***************************************************************************)
EXTENDS Integers, Sequences, FiniteSets, TLC

VARIABLES
    now,        \* wall clock, seconds
    cache,      \* rows of the `cache` table: [key, value, expires_at]
    pending,    \* key -> direct getFromCache calls suspended at the lazy delete
    last,       \* the last direct cache call or the last response sent
    lastWrite,  \* history: per key, the last write the cache table took
    env,        \* process.env: which API keys are configured
    rq,         \* request slot -> the request being handled there
    started,    \* number of requests received so far
    reports,    \* the `reports` table: id -> verification columns
    connected,  \* the sockets connected to the Socket.IO server
    joined,     \* socket -> the rooms it is in
    inbox,      \* socket -> the events it has been sent
    resources,  \* rows of the `resources` table
    disasters   \* rows of the `disasters` table the CRUD handlers write

\* the Socket.IO server and the tables of the CRUD handlers
hub == <<connected, joined, inbox, resources, disasters>>

\* the cache, the request handlers that use it, and the clock
api == <<now, cache, pending, last, lastWrite, env, rq, started, reports>>

(***************************************************************************)
(* Bounds of the model.                                                    *)
(***************************************************************************)
MaxNow == 3600
TickSeconds == 1800
NumCallers == 2
NumSlots == 2
MaxRequests == 2
NumSockets == 2
MaxResources == 2
MaxScore == 100

(***************************************************************************)
(* Program constants.                                                      *)
(***************************************************************************)
DefaultTTL == 3600
GeocodingTTL == 7200
VerificationTTL == 3600
OfficialUpdatesTTL == 1800

Null == [null |-> TRUE]

\* How one call to the store (Supabase) ends: it answers, it answers with
\* { error }, or the awaited promise rejects.
StoreOutcomes == {"ok", "error", "throw"}

(***************************************************************************)
(* The cache table and utils/cache.js.                                     *)
(***************************************************************************)
RowsFor(tbl, key) == {row \in tbl : row.key = key}

\* .select('value, expires_at').eq('key', key).single(): exactly one row, or
\* an error.
SelectSingle(tbl, key, out) ==
    IF out = "ok" /\ Cardinality(RowsFor(tbl, key)) = 1
    THEN LET row == CHOOSE x \in RowsFor(tbl, key) : TRUE
         IN  [error |-> FALSE,
              data |-> [value |-> row.value, expires_at |-> row.expires_at]]
    ELSE [error |-> TRUE, data |-> Null]

IsExpiredStale(data, t) == data.expires_at > t

\* new Date(data.expires_at) < new Date()
IsExpired(data, t) == data.expires_at < t

\* getFromCache up to its first return or to the await of the lazy delete.
GetFromCacheSelect(tbl, key, out, t) ==
    LET r == SelectSingle(tbl, key, out)
    IN  IF out = "throw"
        THEN [next |-> "return", ret |-> Null, raised |-> FALSE]   \* catch
        ELSE IF r.error \/ r.data = Null
        THEN [next |-> "return", ret |-> Null, raised |-> FALSE]
        ELSE IF IsExpired(r.data, t)
        THEN [next |-> "delete", ret |-> Null, raised |-> FALSE]
        ELSE [next |-> "return", ret |-> r.data.value, raised |-> FALSE]

\* .delete().eq('key', key); its { error } is not looked at.
DeleteByKey(tbl, key, out) ==
    IF out = "ok" THEN tbl \ RowsFor(tbl, key) ELSE tbl

ExpiresAtNoTtl(t, ttlSeconds) == t

\* new Date(Date.now() + ttlSeconds * 1000)
ExpiresAt(t, ttlSeconds) == t + ttlSeconds

InsertRow(tbl, row) == tbl \cup {row}

\* .upsert({ key, value, expires_at }) on the primary key `key`.
Upsert(tbl, row) == (tbl \ RowsFor(tbl, row.key)) \cup {row}

SetCacheTableOnFault(tbl, key, value, ttlSeconds, out, t) ==
    Upsert(tbl, [key |-> key, value |-> value,
                 expires_at |-> ExpiresAt(t, ttlSeconds)])

\* The table after setCache(key, value, ttlSeconds) called at time t.
SetCacheTable(tbl, key, value, ttlSeconds, out, t) ==
    IF out = "ok"
    THEN Upsert(tbl, [key |-> key, value |-> value,
                      expires_at |-> ExpiresAt(t, ttlSeconds)])
    ELSE tbl

\* .delete().lte('expires_at', now)
DeleteExpiredInclusive(tbl, out, t) ==
    IF out = "ok" THEN {row \in tbl : row.expires_at > t} ELSE tbl

\* .delete().lt('expires_at', now)
DeleteExpired(tbl, out, t) ==
    IF out = "ok" THEN {row \in tbl : ~(row.expires_at < t)} ELSE tbl

(***************************************************************************)
(* JSON values of a request body, as far as the handlers look at them.     *)
(***************************************************************************)
JStr(s) == [t |-> "string", s |-> s]

JNum == [t |-> "number", s |-> "42"]

JAbsent == [t |-> "undefined", s |-> ""]

\* JavaScript truthiness: !v is false
Truthy(v) == v.t = "number" \/ (v.t = "string" /\ v.s # "")

\* a || b
OrElse(a, b) == IF Truthy(a) THEN a ELSE b

\* Buffer.from(v) throws a TypeError on a number
BufferFromThrows(v) == v.t # "string"

Text1 == "Flooding near Manhattan, NYC, need food"

Url1 == "https://img.example/flood.jpg"

Url2 == "https://img.example/fake-stock.jpg"

\* Buffer.from(s).toString('base64')
Base64Of(s) ==
    CASE s = Text1 -> "Rmxvb2RpbmcgbmVhciBNYW5oYXR0YW4sIE5ZQywgbmVlZCBmb29k"
      [] s = Url1 -> "aHR0cHM6Ly9pbWcuZXhhbXBsZS9mbG9vZC5qcGc="
      [] s = Url2 -> "aHR0cHM6Ly9pbWcuZXhhbXBsZS9mYWtlLXN0b2NrLmpwZw=="

GeocodingKey(inputText) == "geocoding_" \o Base64Of(inputText.s)

ImageKey(image_url) == "image_verification_" \o Base64Of(image_url.s)

OfficialKey(disasterId) == "official_updates_" \o disasterId

(***************************************************************************)
(* The `disasters` table, read by the handlers.                            *)
(***************************************************************************)
DisasterTable ==
    {[id |-> "d1", tags |-> <<"flood">>, location_name |-> "Manhattan, NYC"],
     [id |-> "d2", tags |-> <<"food", "shelter">>, location_name |-> ""]}

\* .from('disasters').select('*').eq('id', disasterId).single()
SelectDisaster(disasterId, out) ==
    LET rows == {d \in DisasterTable : d.id = disasterId}
    IN  IF out = "ok" /\ Cardinality(rows) = 1
        THEN [error |-> FALSE, data |-> CHOOSE d \in rows : TRUE]
        ELSE [error |-> TRUE, data |-> Null]

(***************************************************************************)
(* routes/geocoding.js: providers and fallback.  A provider function       *)
(* returns [threw, value]; what the remote service answers is `reply`.     *)
(***************************************************************************)
Threw == [threw |-> TRUE, value |-> Null]

Returned(v) == [threw |-> FALSE, value |-> v]

GeminiTextReplies ==
    {"error", "", "Location not specified", "Manhattan, NYC"}

GeocoderReplies == {"error", "none", "found"}

\* what each service would answer to this request
GeoWorlds ==
    [gemini : GeminiTextReplies, google_maps : GeocoderReplies,
     mapbox : GeocoderReplies, nominatim : GeocoderReplies]

\* locationName.toLowerCase().includes('not specified')
IncludesNotSpecified(locationName) == locationName = "Location not specified"

extractLocationWithGemini(e, text, reply) ==
    IF ~e.gemini THEN Threw                      \* key not configured
    ELSE IF reply = "error" THEN Threw           \* axios rejects
    ELSE IF reply = "" THEN Threw                \* no generatedText
    ELSE IF IncludesNotSpecified(reply) THEN Threw
    ELSE Returned([name |-> reply])

geocodeWithGoogleMaps(locationName, reply) ==
    IF reply # "found" THEN Threw
    ELSE Returned([lat |-> 407831, lng |-> -739712,
                   formatted_address |-> "Manhattan, New York, NY, USA",
                   service |-> "google_maps"])

geocodeWithMapbox(locationName, reply) ==
    IF reply # "found" THEN Threw
    ELSE Returned([lat |-> 407831, lng |-> -739712,
                   formatted_address |-> "Manhattan, New York, United States",
                   service |-> "mapbox"])

geocodeWithNominatim(locationName, reply) ==
    IF reply # "found" THEN Threw
    ELSE Returned([lat |-> 407831, lng |-> -739712,
                   formatted_address |-> "Manhattan, New York County, New York",
                   service |-> "nominatim"])

\* the one mapping service geocodeLocation asks
SelectedGeocoder(e) ==
    IF e.google_maps THEN "google_maps"
    ELSE IF e.mapbox THEN "mapbox" ELSE "nominatim"

\* every usable service asked in turn until one answers
geocodeLocationCascade(e, locationName, w) ==
    LET g == IF e.google_maps
             THEN geocodeWithGoogleMaps(locationName, w.google_maps) ELSE Threw
        m == IF e.mapbox
             THEN geocodeWithMapbox(locationName, w.mapbox) ELSE Threw
    IN  IF ~g.threw THEN g
        ELSE IF ~m.threw THEN m
        ELSE geocodeWithNominatim(locationName, w.nominatim)

geocodeLocation(e, locationName, w) ==
    IF e.google_maps
    THEN geocodeWithGoogleMaps(locationName, w.google_maps)
    ELSE IF e.mapbox
    THEN geocodeWithMapbox(locationName, w.mapbox)
    ELSE geocodeWithNominatim(locationName, w.nominatim)

\* the first service in the branches below the one geocodeLocation took that
\* is usable and would have answered; "" when there is none
LaterGeocoder(e, locationName, w) ==
    LET m == IF e.google_maps /\ e.mapbox
             THEN geocodeWithMapbox(locationName, w.mapbox) ELSE Threw
        n == IF e.google_maps \/ e.mapbox
             THEN geocodeWithNominatim(locationName, w.nominatim) ELSE Threw
    IN  IF ~m.threw THEN "mapbox"
        ELSE IF ~n.threw THEN "nominatim" ELSE ""

(***************************************************************************)
(* mockLocationExtraction.  A text is read as its sequence of characters   *)
(* (CharsOf), the four locationPatterns are matched on that sequence as    *)
(* the regular expressions match (leftmost, greedy), and the capture is    *)
(* joined back into a string.                                              *)
(***************************************************************************)
Text2 == "Fire in Chicago, IL"

Text3 == "help"

Text4 == "Brooklyn, NY flooded"

Text5 == "Shelter at Queens"

CharsOf(text) ==
    CASE text = Text1 ->
        <<"F", "l", "o", "o", "d", "i", "n", "g", " ", "n", "e", "a", "r",
          " ", "M", "a", "n", "h", "a", "t", "t", "a", "n", ",", " ", "N",
          "Y", "C", ",", " ", "n", "e", "e", "d", " ", "f", "o", "o", "d">>
      [] text = Text2 ->
        <<"F", "i", "r", "e", " ", "i", "n", " ", "C", "h", "i", "c", "a",
          "g", "o", ",", " ", "I", "L">>
      [] text = Text3 ->
        <<"h", "e", "l", "p">>
      [] text = Text4 ->
        <<"B", "r", "o", "o", "k", "l", "y", "n", ",", " ", "N", "Y", " ",
          "f", "l", "o", "o", "d", "e", "d">>
      [] text = Text5 ->
        <<"S", "h", "e", "l", "t", "e", "r", " ", "a", "t", " ", "Q", "u",
          "e", "e", "n", "s">>

RECURSIVE Join(_)
Join(chars) ==
    IF chars = <<>> THEN "" ELSE Head(chars) \o Join(Tail(chars))

UpperLetters ==
    <<"A", "B", "C", "D", "E", "F", "G", "H", "I", "J", "K", "L", "M", "N",
      "O", "P", "Q", "R", "S", "T", "U", "V", "W", "X", "Y", "Z">>

LowerLetters ==
    <<"a", "b", "c", "d", "e", "f", "g", "h", "i", "j", "k", "l", "m", "n",
      "o", "p", "q", "r", "s", "t", "u", "v", "w", "x", "y", "z">>

IsUpper(c) == \E i \in 1..26 : UpperLetters[i] = c

IsLetter(c) == \E i \in 1..26 : UpperLetters[i] = c \/ LowerLetters[i] = c

\* \s, on texts whose only white space is the blank
IsSpace(c) == c = " "

\* [a-zA-Z\s,]
IsPhraseChar(c) == IsLetter(c) \/ IsSpace(c) \/ c = ","

ToLowerChar(c) ==
    IF IsUpper(c)
    THEN LowerLetters[CHOOSE i \in 1..26 : UpperLetters[i] = c] ELSE c

\* the last position of the longest run of characters satisfying In that
\* starts at position i; i - 1 when the run is empty
RunEnd(chars, i, In(_)) ==
    CHOOSE j \in (i - 1)..Len(chars) :
        /\ \A k \in i..j : In(chars[k])
        /\ j = Len(chars) \/ ~In(chars[j + 1])

NoMatch == [found |-> FALSE, at |-> 0, chars |-> <<>>]

\* /word\s+([A-Z][a-zA-Z\s,]+)/i tried at position i
KeywordMatchAt(chars, word, i) ==
    LET spaces == i + Len(word)
        first == RunEnd(chars, spaces, IsSpace) + 1
        stop == RunEnd(chars, first + 1, IsPhraseChar)
    IN  IF /\ i + Len(word) - 1 <= Len(chars)
           /\ \A k \in 1..Len(word) : ToLowerChar(chars[i + k - 1]) = word[k]
           /\ first > spaces
           /\ first <= Len(chars)
           /\ IsLetter(chars[first])
           /\ stop > first
        THEN [found |-> TRUE, at |-> i, chars |-> SubSeq(chars, first, stop)]
        ELSE NoMatch

\* of the matches found at the positions of a text, the leftmost
Leftmost(matches) ==
    IF \A m \in matches : ~m.found THEN NoMatch
    ELSE CHOOSE m \in matches :
             m.found /\ \A o \in matches : o.found => m.at <= o.at

\* text.match(/word\s+([A-Z][a-zA-Z\s,]+)/i): the leftmost match
KeywordMatch(chars, word) ==
    Leftmost({KeywordMatchAt(chars, word, i) : i \in 1..Len(chars)})

\* /([A-Z][a-zA-Z]+,?\s*[A-Z]{2,})/ tried at position i with n letters
\* taken by [a-zA-Z]+, and with or without the comma taken by ,?
PlaceMatchWith(chars, i, n, comma) ==
    LET after == i + n + 1
        spaces == IF comma THEN after + 1 ELSE after
        caps == RunEnd(chars, spaces, IsSpace) + 1
        stop == RunEnd(chars, caps, IsUpper)
    IN  IF /\ comma => (after <= Len(chars) /\ chars[after] = ",")
           /\ stop >= caps + 1
        THEN [found |-> TRUE, at |-> i, chars |-> SubSeq(chars, i, stop)]
        ELSE NoMatch

\* the first of the alternatives, in the order they are tried, that matches
FirstFound(tries) ==
    IF \A k \in 1..Len(tries) : ~tries[k].found THEN NoMatch
    ELSE tries[CHOOSE k \in 1..Len(tries) :
                   tries[k].found /\ \A j \in 1..(k - 1) : ~tries[j].found]

\* backtracking of [a-zA-Z]+ from n letters down to one: with n letters the
\* comma is tried taken, then not taken, then one letter is given back
RECURSIVE PlaceMatchTaking(_, _, _)
PlaceMatchTaking(chars, i, n) ==
    IF n < 1 THEN NoMatch
    ELSE FirstFound(<<PlaceMatchWith(chars, i, n, TRUE),
                      PlaceMatchWith(chars, i, n, FALSE),
                      PlaceMatchTaking(chars, i, n - 1)>>)

\* the match at position i: the longest [a-zA-Z]+ that lets the rest match,
\* the comma taken when it can be
PlaceMatchAt(chars, i) ==
    IF IsUpper(chars[i])
    THEN PlaceMatchTaking(chars, i, RunEnd(chars, i + 1, IsLetter) - i)
    ELSE NoMatch

PlaceMatch(chars) ==
    Leftmost({PlaceMatchAt(chars, i) : i \in 1..Len(chars)})

\* match[1].trim()
Trim(chars) ==
    LET ink == {i \in 1..Len(chars) : ~IsSpace(chars[i])}
    IN  IF ink = {} THEN <<>>
        ELSE SubSeq(chars, CHOOSE i \in ink : \A j \in ink : i <= j,
                    CHOOSE i \in ink : \A j \in ink : j <= i)

\* the loop over locationPatterns: the first capture of the first pattern
\* that matches
FirstPatternMatch(chars) ==
    FirstFound(<<KeywordMatch(chars, <<"i", "n">>),
                 KeywordMatch(chars, <<"a", "t">>),
                 KeywordMatch(chars, <<"n", "e", "a", "r">>),
                 PlaceMatch(chars)>>)

GeoTexts == {Text1, Text2, Text3, Text4, Text5}

\* text.match(pattern) for each text, worked out once
PatternMatches == [text \in GeoTexts |-> FirstPatternMatch(CharsOf(text))]

\* extractedLocation for each text: the trimmed capture, 'New York, NY'
\* when no pattern matches
LocationOf(match) ==
    IF match.found THEN Join(Trim(match.chars)) ELSE "New York, NY"

ExtractedLocations == [text \in GeoTexts |-> LocationOf(PatternMatches[text])]

MockExtractedLocation(text) == ExtractedLocations[text]

MockCoordinatesTable ==
    {[name |-> "Manhattan, NYC", lat |-> 407831, lng |-> -739712],
     [name |-> "Brooklyn, NY", lat |-> 406782, lng |-> -739442],
     [name |-> "Queens, NY", lat |-> 407282, lng |-> -737949],
     [name |-> "Bronx, NY", lat |-> 408448, lng |-> -738648],
     [name |-> "New York, NY", lat |-> 407128, lng |-> -740060],
     [name |-> "Los Angeles, CA", lat |-> 340522, lng |-> -1182437],
     [name |-> "Chicago, IL", lat |-> 418781, lng |-> -876298]}

\* mockCoordinates[extractedLocation], with no default
MockCoordinatesOfExact(name) ==
    IF \E c \in MockCoordinatesTable : c.name = name
    THEN CHOOSE c \in MockCoordinatesTable : c.name = name
    ELSE [name |-> name, lat |-> 0, lng |-> 0]

\* mockCoordinates[extractedLocation] || mockCoordinates['New York, NY']
MockCoordinatesOf(name) ==
    IF \E c \in MockCoordinatesTable : c.name = name
    THEN CHOOSE c \in MockCoordinatesTable : c.name = name
    ELSE CHOOSE c \in MockCoordinatesTable : c.name = "New York, NY"

mockLocationExtraction(text) ==
    LET extractedLocation == MockExtractedLocation(text)
        c == MockCoordinatesOf(extractedLocation)
    IN  [original_text |-> text,
         extracted_location |-> extractedLocation,
         coordinates |-> [lat |-> c.lat, lng |-> c.lng,
                          formatted_address |-> extractedLocation,
                          service |-> "mock"],
         success |-> TRUE,
         mock |-> TRUE]

\* lines 203-223 of the geocode handler: the try block and its catch.
\* `tried` lists the services a request was sent to, in order.
GeocodeResolution(e, inputText, w) ==
    LET x == extractLocationWithGemini(e, inputText, w.gemini)
        g == geocodeLocation(e, x.value.name, w)
        asked == IF e.gemini THEN <<"gemini">> ELSE <<>>
    IN  IF x.threw
        THEN [result |-> mockLocationExtraction(inputText),
              tried |-> asked, fallback |-> 1, later |-> ""]
        ELSE IF g.threw
        THEN [result |-> mockLocationExtraction(inputText),
              tried |-> Append(asked, SelectedGeocoder(e)), fallback |-> 1,
              later |-> LaterGeocoder(e, x.value.name, w)]
        ELSE [result |-> [original_text |-> inputText,
                          extracted_location |-> x.value.name,
                          coordinates |-> g.value,
                          success |-> TRUE],
              tried |-> Append(asked, SelectedGeocoder(e)), fallback |-> 0,
              later |-> ""]

(***************************************************************************)
(* routes/verification.js: provider and fallback.                          *)
(***************************************************************************)
\* what Gemini answers to the verification prompt: the request fails, the
\* answer holds no text, the text holds a JSON object, or it does not parse
GeminiVerdictReplies ==
    {[kind |-> "error"],
     [kind |-> "empty"],
     [kind |-> "json", authenticity_score |-> 85,
      manipulation_detected |-> FALSE, context_match |-> TRUE,
      analysis_summary |-> "consistent lighting", confidence_level |-> "high"],
     [kind |-> "text", fake |-> TRUE, manipulated |-> FALSE,
      edited |-> FALSE, unrelated |-> FALSE,
      analysis_summary |-> "looks fake"]}

\* lines 306-324: the analysis object
AnalysisOf(reply) ==
    IF reply.kind = "json"
    THEN [authenticity_score |-> reply.authenticity_score,
          manipulation_detected |-> reply.manipulation_detected,
          context_match |-> reply.context_match,
          analysis_summary |-> reply.analysis_summary,
          confidence_level |-> reply.confidence_level]
    ELSE [authenticity_score |-> IF reply.fake THEN 30 ELSE 80,
          manipulation_detected |-> reply.manipulated \/ reply.edited,
          context_match |-> ~reply.unrelated,
          analysis_summary |-> reply.analysis_summary,
          confidence_level |-> "medium"]

StatusOfScoreInclusive(score) ==
    IF score >= 70 THEN "verified"
    ELSE IF score >= 40 THEN "suspicious" ELSE "fake"

\* line 327
StatusOfScore(score) ==
    IF score > 70 THEN "verified"
    ELSE IF score > 40 THEN "suspicious" ELSE "fake"

\* a verifyImageWithGemini whose parse failure is not caught
verifyImageWithGeminiStrict(e, imageUrl, disaster, reply, t) ==
    IF ~e.gemini \/ reply.kind # "json" THEN Threw
    ELSE LET analysis == AnalysisOf(reply)
         IN  Returned(
               [status |-> StatusOfScore(analysis.authenticity_score),
                authenticity_score |-> analysis.authenticity_score,
                manipulation_detected |-> analysis.manipulation_detected,
                context_match |-> analysis.context_match,
                analysis_summary |-> analysis.analysis_summary,
                confidence_level |-> analysis.confidence_level,
                verification_method |-> "gemini_api",
                timestamp |-> t])

verifyImageWithGemini(e, imageUrl, disaster, reply, t) ==
    IF ~e.gemini THEN Threw
    ELSE IF reply.kind = "error" THEN Threw
    ELSE IF reply.kind = "empty" THEN Threw
    ELSE LET analysis == AnalysisOf(reply)
         IN  Returned(
               [status |-> StatusOfScore(analysis.authenticity_score),
                authenticity_score |-> analysis.authenticity_score,
                manipulation_detected |-> analysis.manipulation_detected,
                context_match |-> analysis.context_match,
                analysis_summary |-> analysis.analysis_summary,
                confidence_level |-> analysis.confidence_level,
                verification_method |-> "gemini_api",
                timestamp |-> t])

\* Math.floor(Math.random() * 40) + 60, the two values around `score > 80`
MockScores == {80, 81}

\* suspiciousPatterns.some(pattern => imageUrl.toLowerCase().includes(pattern))
IsSuspiciousUrl(imageUrl) == imageUrl = Url2

mockImageVerification(imageUrl, disaster, score, t) ==
    LET isSuspicious == IsSuspiciousUrl(imageUrl)
    IN  [status |-> IF isSuspicious THEN "suspicious"
                    ELSE IF score > 80 THEN "verified" ELSE "pending",
         authenticity_score |-> IF isSuspicious THEN 25 ELSE score,
         manipulation_detected |-> isSuspicious,
         context_match |-> TRUE,
         analysis_summary |->
            IF isSuspicious
            THEN "Image shows signs of being staged or stock photography"
            ELSE "Image appears authentic with no obvious signs of manipulation",
         confidence_level |-> "medium",
         verification_method |-> "mock_analysis",
         timestamp |-> t]

\* lines 224-233 of the verify-image handler: the try block and its catch
VerificationResolution(e, imageUrl, disaster, reply, score, t) ==
    LET v == verifyImageWithGemini(e, imageUrl, disaster, reply, t)
        asked == IF e.gemini THEN <<"gemini">> ELSE <<>>
    IN  IF v.threw
        THEN [result |-> mockImageVerification(imageUrl, disaster, score, t),
              tried |-> asked, fallback |-> 1]
        ELSE [result |-> v.value, tried |-> asked, fallback |-> 0]

(***************************************************************************)
(* routes/updates.js: scraping providers and the static set.               *)
(***************************************************************************)
\* what fema.gov answers: the request fails, or the page holds this many
\* .news-item elements with a title and a summary
FemaReplies == {"error", "0", "1"}

scrapeFEMAUpdates(disaster, reply, t) ==
    IF reply = "1"
    THEN <<[id |-> "fema_0", source |-> "FEMA", priority |-> "high",
            timestamp |-> t]>>
    ELSE <<>>

scrapeRedCrossUpdates(disaster, t) ==
    <<[id |-> "redcross_current", source |-> "American Red Cross",
       priority |-> "medium", timestamp |-> t]>>

\* mockOfficialUpdates, built when the module loads (time 0)
mockOfficialUpdates ==
    <<[id |-> "1", source |-> "FEMA", priority |-> "high",
       timestamp |-> 0 - 7200],
      [id |-> "2", source |-> "NYC Emergency Management", priority |-> "high",
       timestamp |-> 0 - 3600],
      [id |-> "3", source |-> "Red Cross", priority |-> "medium",
       timestamp |-> 0 - 10800],
      [id |-> "4", source |-> "National Weather Service", priority |-> "medium",
       timestamp |-> 0 - 1800]>>

\* update.content.toLowerCase().includes(tag.toLowerCase()): none of the four
\* contents holds the tag 'flood'
ContentIncludesTag(update, tag) == FALSE

RelevantToDisaster(update, disaster) ==
    \E i \in 1..Len(disaster.tags) : ContentIncludesTag(update, disaster.tags[i])

RECURSIVE FilterSeq(_, _)
FilterSeq(seq, keep) ==
    IF seq = <<>> THEN <<>>
    ELSE IF Head(seq).id \in keep
    THEN <<Head(seq)>> \o FilterSeq(Tail(seq), keep)
    ELSE FilterSeq(Tail(seq), keep)

\* lines 93-99; `lucky` are the updates for which Math.random() > 0.3
MockUpdatesFor(disaster, lucky) ==
    FilterSeq(mockOfficialUpdates,
              {u.id : u \in {x \in {mockOfficialUpdates[i] : i \in 1..4} :
                                RelevantToDisaster(x, disaster)
                                \/ x.id \in lucky}})

\* x goes after every element that is at least as new: a stable sort
RECURSIVE InsertNewestFirst(_, _)
InsertNewestFirst(x, sorted) ==
    IF sorted = <<>> THEN <<x>>
    ELSE IF Head(sorted).timestamp >= x.timestamp
    THEN <<Head(sorted)>> \o InsertNewestFirst(x, Tail(sorted))
    ELSE <<x>> \o sorted

\* updates.sort((a, b) => new Date(b.timestamp) - new Date(a.timestamp))
RECURSIVE SortNewestFirst(_)
SortNewestFirst(seq) ==
    IF seq = <<>> THEN <<>>
    ELSE InsertNewestFirst(seq[Len(seq)],
                           SortNewestFirst(SubSeq(seq, 1, Len(seq) - 1)))

\* a call of a scraping provider starting, returning its items, or failing
\* inside the provider (which then returns no item)
CallEvent(svc, ev, items) == [svc |-> svc, ev |-> ev, items |-> items]

\* both calls started before either is awaited
ScrapeCallsTogether(reply, femaUpdates, redCrossUpdates) ==
    <<CallEvent("fema", "start", 0),
      CallEvent("redcross", "start", 0),
      CallEvent("fema", IF reply = "error" THEN "fail" ELSE "end",
                Len(femaUpdates)),
      CallEvent("redcross", "end", Len(redCrossUpdates))>>

\* the calls of lines 75-89 in the order the awaits run them
ScrapeCalls(reply, femaUpdates, redCrossUpdates) ==
    <<CallEvent("fema", "start", 0),
      CallEvent("fema", IF reply = "error" THEN "fail" ELSE "end",
                Len(femaUpdates)),
      CallEvent("redcross", "start", 0),
      CallEvent("redcross", "end", Len(redCrossUpdates))>>

\* one try block around both providers: a failure drops every scraped item
OfficialResolutionAllOrNothing(disaster, reply, lucky, t) ==
    LET femaUpdates == scrapeFEMAUpdates(disaster, reply, t)
        redCrossUpdates == scrapeRedCrossUpdates(disaster, t)
        scraped == IF reply = "error" THEN <<>>
                   ELSE femaUpdates \o redCrossUpdates
        updates == IF Len(scraped) = 0
                   THEN MockUpdatesFor(disaster, lucky) ELSE scraped
    IN  [result |-> [list |-> SortNewestFirst(updates)],
         tried |-> <<"fema", "redcross">>,
         calls |-> ScrapeCalls(reply, femaUpdates, redCrossUpdates),
         fallback |-> IF Len(scraped) = 0 THEN 1 ELSE 0]

\* lines 72-103 of the official-updates handler
OfficialResolution(disaster, reply, lucky, t) ==
    LET femaUpdates == scrapeFEMAUpdates(disaster, reply, t)
        redCrossUpdates == scrapeRedCrossUpdates(disaster, t)
        scraped == femaUpdates \o redCrossUpdates
        updates == IF Len(scraped) = 0
                   THEN MockUpdatesFor(disaster, lucky) ELSE scraped
    IN  [result |-> [list |-> SortNewestFirst(updates)],
         tried |-> <<"fema", "redcross">>,
         calls |-> ScrapeCalls(reply, femaUpdates, redCrossUpdates),
         fallback |-> IF Len(scraped) = 0 THEN 1 ELSE 0]

(***************************************************************************)
(* History of the writes the table took, per key.                          *)
(***************************************************************************)
NoWrite == [op |-> "none"]

WriteOfSet(tbl, key, value, ttlSeconds, t) ==
    [op |-> "set", value |-> value, ttl |-> ttlSeconds, at |-> t,
     over |-> (RowsFor(tbl, key) # {})]

WriteOfDelete(by) == [op |-> "delete", by |-> by]

Noted(key, w) == [lastWrite EXCEPT ![key] = w]

NotedExpired(tbl, t) ==
    [k \in DOMAIN lastWrite |->
        IF \E row \in RowsFor(tbl, k) : row.expires_at < t
        THEN WriteOfDelete("sweep") ELSE lastWrite[k]]


(***************************************************************************)
(* Direct callers of utils/cache.js: any key, value and ttl.  A call is    *)
(* one step, except a getFromCache that found an expired row: it is        *)
(* suspended at the await of its lazy delete (it will return null), and    *)
(* `pending` counts the calls suspended there per key.                     *)
(***************************************************************************)
CallerKeys == {"geocoding_RmlyZSBpbiBDaGljYWdvLCBJTA==", "official_updates_d1"}

CallerValues == {[note |-> "a"], [note |-> "b"]}

CallerTTLs == {DefaultTTL, OfficialUpdatesTTL}

NoCall == [op |-> "none", key |-> "", out |-> "ok", ret |-> Null,
           raised |-> FALSE]

RECURSIVE SumOver(_, _)
SumOver(f, S) ==
    IF S = {} THEN 0
    ELSE LET k == CHOOSE x \in S : TRUE IN f[k] + SumOver(f, S \ {k})

Suspended == SumOver(pending, CallerKeys)

(***************************************************************************)
(* The clock, the sweep timer, and the state after start-up.               *)
(***************************************************************************)
AllKeys ==
    CallerKeys \cup {GeocodingKey(JStr(Text1)), ImageKey(JStr(Url1)),
                     ImageKey(JStr(Url2)), OfficialKey("d1"),
                     OfficialKey("d9")}

\* setInterval(clearExpiredCache, 60 * 60 * 1000)
ClearExpiredCacheEnding(out) ==
    /\ cache' = DeleteExpired(cache, out, now)
    /\ lastWrite' = IF out = "ok" THEN NotedExpired(cache, now)
                    ELSE lastWrite

ClearExpiredCache == \E out \in StoreOutcomes : ClearExpiredCacheEnding(out)

Slots == 1..NumSlots

\* req.user before authenticate has run
NoUser == [id |-> "", role |-> ""]

\* the rows of `disasters` at start-up, as the CRUD handlers see them
StoredDisasters ==
    {[id |-> "d1", title |-> "NYC Flood", owner_id |-> "netrunnerX",
      audit_trail |-> <<[action |-> "create", user_id |-> "netrunnerX"]>>],
     [id |-> "d2", title |-> "Food Drive", owner_id |-> "citizen1",
      audit_trail |-> <<[action |-> "create", user_id |-> "citizen1"]>>]}

SocketIds == 1..NumSockets

IdleRequest ==
    [pc |-> "idle", kind |-> "none", id |-> "", input |-> JAbsent,
     report_id |-> "", key |-> "", read |-> "none", lookup |-> "none",
     tried |-> <<>>, calls |-> <<>>, fallback |-> 0, later |-> "",
     result |-> Null, reported |-> "none",
     wrote |-> "none", status |-> 0,
     auth |-> "", user |-> NoUser]

EnvConfigs ==
    {[gemini |-> FALSE, google_maps |-> FALSE, mapbox |-> FALSE],
     [gemini |-> TRUE, google_maps |-> TRUE, mapbox |-> TRUE]}

ReportIds == {"rep1"}

vars == <<now, cache, pending, last, lastWrite, env, rq, started, reports,
          connected, joined, inbox, resources, disasters>>

\* the state after start-up, whatever the environment
InitState ==
    /\ now = 0
    /\ cache = {}
    /\ pending = [k \in CallerKeys |-> 0]
    /\ last = NoCall
    /\ lastWrite = [k \in AllKeys |-> NoWrite]
    /\ rq = [r \in Slots |-> IdleRequest]
    /\ started = 0
    /\ reports = [i \in ReportIds |->
                    [verification_status |-> "pending",
                     verification_details |-> Null]]
    /\ connected = {}
    /\ joined = [s \in SocketIds |-> {}]
    /\ inbox = [s \in SocketIds |-> {}]
    /\ resources = <<>>
    /\ disasters = StoredDisasters

Init == env \in EnvConfigs /\ InitState

Tick ==
    /\ now + TickSeconds <= MaxNow
    /\ now' = now + TickSeconds
    /\ UNCHANGED <<hub, cache, pending, last, lastWrite, env, rq, started, reports>>

(***************************************************************************)
(* The request handlers.  A handler runs from one await of the store to    *)
(* the next: the cache read, the lazy delete, the resolution (entity       *)
(* lookup, providers, fallback), the report update, the cache write, the   *)
(* response.                                                               *)
(***************************************************************************)
\* the ttlSeconds each handler passes to setCache
CacheTTLOfDefault(kind) == DefaultTTL

CacheTTLOf(kind) ==
    CASE kind = "geocode" -> GeocodingTTL
      [] kind = "verify" -> VerificationTTL
      [] kind = "official" -> OfficialUpdatesTTL

Rejected(req, code) == [req EXCEPT !.pc = "done", !.status = code]

CheckCacheFirstAndRefresh(req, tbl, out, t) ==
    LET g == GetFromCacheSelect(tbl, req.key, out, t)
    IN  IF g.ret # Null
        THEN [req EXCEPT !.pc = "write", !.result = g.ret, !.read = "hit"]
        ELSE IF g.next = "delete"
        THEN [req EXCEPT !.pc = "delete", !.read = "expired"]
        ELSE [req EXCEPT !.pc = "resolve",
                         !.read = IF out = "ok" THEN "miss" ELSE "fault"]

\* const cached = await getFromCache(cacheKey); if (cached) return res.json(cached)
CheckCacheFirst(req, tbl, out, t) ==
    LET g == GetFromCacheSelect(tbl, req.key, out, t)
    IN  IF g.raised
        THEN [req EXCEPT !.pc = "done", !.status = 500, !.read = "fault"]
        ELSE IF g.ret # Null
        THEN [req EXCEPT !.pc = "done", !.status = 200, !.result = g.ret,
                         !.read = "hit"]
        ELSE IF g.next = "delete"
        THEN [req EXCEPT !.pc = "delete", !.read = "expired"]
        ELSE [req EXCEPT !.pc = "resolve",
                         !.read = IF out = "ok" THEN "miss" ELSE "fault"]

\* a request is served in the first slot that is free
MayStart(r) ==
    /\ rq[r].pc = "idle"
    /\ \A q \in 1..(r - 1) : rq[q].pc # "idle"
    /\ started < MaxRequests

\* what the client of a finished request saw
Response(req) == [op |-> "response", req |-> req]

\* the handler goes on, or has answered and its slot is free again
Continue(r, req) ==
    /\ rq' = [rq EXCEPT ![r] = IF req.pc = "done" THEN IdleRequest ELSE req]
    /\ last' = IF req.pc = "done" THEN Response(req) ELSE last

GeoBodies ==
    {[text |-> JStr(Text1), description |-> JAbsent],
     [text |-> JAbsent, description |-> JStr(Text1)],
     [text |-> JStr(""), description |-> JAbsent],
     [text |-> JNum, description |-> JAbsent]}

\* POST /api/geocode, up to the cache read
GeoStart(r) ==
    /\ MayStart(r)
    /\ \E body \in GeoBodies, out \in StoreOutcomes :
          LET inputText == OrElse(body.text, body.description)
              req == [IdleRequest EXCEPT !.kind = "geocode",
                                         !.input = inputText]
          IN  Continue(r,
                IF ~Truthy(body.text) /\ ~Truthy(body.description)
                THEN Rejected(req, 400)
                ELSE IF BufferFromThrows(inputText)
                THEN Rejected(req, 500)
                ELSE CheckCacheFirst(
                       [req EXCEPT !.key = GeocodingKey(inputText)],
                       cache, out, now))
    /\ started' = started + 1
    /\ UNCHANGED <<hub, now, cache, pending, lastWrite, env, reports>>

\* the lazy delete inside the handler's getFromCache, which returns null
LazyDelete(r) ==
    /\ rq[r].pc = "delete"
    /\ \E out \in StoreOutcomes :
          /\ cache' = DeleteByKey(cache, rq[r].key, out)
          /\ lastWrite' = IF cache' # cache
                          THEN Noted(rq[r].key, WriteOfDelete("lazy"))
                          ELSE lastWrite
    /\ rq' = [rq EXCEPT ![r].pc = "resolve"]
    /\ UNCHANGED <<hub, now, pending, last, env, started, reports>>

\* POST /api/geocode, lines 203-223
GeoResolve(r) ==
    /\ rq[r].pc = "resolve" /\ rq[r].kind = "geocode"
    /\ \E w \in GeoWorlds :
          LET x == GeocodeResolution(env, rq[r].input.s, w)
          IN  Continue(r, [rq[r] EXCEPT !.pc = "write", !.result = x.result,
                                        !.tried = x.tried,
                                        !.fallback = x.fallback,
                                        !.later = x.later])
    /\ UNCHANGED <<hub, now, cache, pending, lastWrite, env, started, reports>>

RequestIds == {"d1", "d9"}

VerifyBodies ==
    {[image_url |-> JStr(Url1), report_id |-> "rep1"],
     [image_url |-> JStr(Url2), report_id |-> ""],
     [image_url |-> JAbsent, report_id |-> ""],
     [image_url |-> JNum, report_id |-> ""]}

\* POST /api/disasters/:id/verify-image, up to the cache read
VerifyStart(r) ==
    /\ MayStart(r)
    /\ \E id \in RequestIds, body \in VerifyBodies, out \in StoreOutcomes :
          LET req == [IdleRequest EXCEPT !.kind = "verify", !.id = id,
                                         !.input = body.image_url,
                                         !.report_id = body.report_id]
          IN  Continue(r,
                IF ~Truthy(body.image_url)
                THEN Rejected(req, 400)
                ELSE IF BufferFromThrows(body.image_url)
                THEN Rejected(req, 500)
                ELSE CheckCacheFirst(
                       [req EXCEPT !.key = ImageKey(body.image_url)],
                       cache, out, now))
    /\ started' = started + 1
    /\ UNCHANGED <<hub, now, cache, pending, lastWrite, env, reports>>

\* the entity lookup of a handler: { data, error } or an exception
LookupResult(req, d, out) ==
    IF out = "throw" \/ d.error
    THEN [req EXCEPT !.pc = "done", !.status = 500, !.lookup = "error"]
    ELSE IF d.data = Null
    THEN [req EXCEPT !.pc = "done", !.status = 404, !.lookup = "absent"]
    ELSE [req EXCEPT !.lookup = "ok"]

\* verify-image, lines 214-233
VerifyResolve(r) ==
    /\ rq[r].pc = "resolve" /\ rq[r].kind = "verify"
    /\ \E out \in StoreOutcomes, reply \in GeminiVerdictReplies,
          score \in MockScores :
          LET d == SelectDisaster(rq[r].id, out)
              req == LookupResult(rq[r], d, out)
              x == VerificationResolution(env, rq[r].input.s, d.data,
                                          reply, score, now)
          IN  Continue(r,
                IF req.lookup # "ok" THEN req
                ELSE [req EXCEPT !.pc = IF req.report_id # "" THEN "report"
                                        ELSE "write",
                                 !.result = x.result, !.tried = x.tried,
                                 !.fallback = x.fallback])
    /\ UNCHANGED <<hub, now, cache, pending, lastWrite, env, started, reports>>

\* verify-image, lines 235-248
ReportUpdate(r) ==
    /\ rq[r].pc = "report"
    /\ \E out \in StoreOutcomes :
          /\ reports' =
                IF out = "ok" /\ rq[r].report_id \in DOMAIN reports
                THEN [reports EXCEPT ![rq[r].report_id] =
                        [verification_status |-> rq[r].result.status,
                         verification_details |-> rq[r].result]]
                ELSE reports
          /\ Continue(r, IF out = "throw" THEN Rejected(rq[r], 500)
                          ELSE [rq[r] EXCEPT !.pc = "write",
                                             !.reported =
                                                IF out = "ok" THEN "ok"
                                                ELSE "fault"])
    /\ UNCHANGED <<hub, now, cache, pending, lastWrite, env, started>>

\* GET /api/disasters/:id/official-updates, up to the cache read
OfficialStart(r) ==
    /\ MayStart(r)
    /\ \E id \in RequestIds, out \in StoreOutcomes :
          Continue(r, CheckCacheFirst(
                        [IdleRequest EXCEPT !.kind = "official", !.id = id,
                                            !.key = OfficialKey(id)],
                        cache, out, now))
    /\ started' = started + 1
    /\ UNCHANGED <<hub, now, cache, pending, lastWrite, env, reports>>

\* the mock items Math.random() > 0.3 lets through
LuckyDraws == {{}, {"1", "3"}}

\* official-updates, lines 62-103
OfficialResolve(r) ==
    /\ rq[r].pc = "resolve" /\ rq[r].kind = "official"
    /\ \E out \in StoreOutcomes, reply \in FemaReplies,
          lucky \in LuckyDraws :
          LET d == SelectDisaster(rq[r].id, out)
              req == LookupResult(rq[r], d, out)
              x == OfficialResolution(d.data, reply, lucky, now)
          IN  Continue(r,
                IF req.lookup # "ok" THEN req
                ELSE [req EXCEPT !.pc = "write", !.result = x.result,
                                 !.tried = x.tried,
                                 !.calls = x.calls,
                                 !.fallback = x.fallback])
    /\ UNCHANGED <<hub, now, cache, pending, lastWrite, env, started, reports>>

\* await setCache(cacheKey, result, ttl)
CacheWrite(r) ==
    /\ rq[r].pc = "write"
    /\ \E out \in StoreOutcomes :
          /\ cache' = SetCacheTable(cache, rq[r].key, rq[r].result,
                                    CacheTTLOf(rq[r].kind), out, now)
          /\ lastWrite' =
                IF out = "ok"
                THEN Noted(rq[r].key,
                           WriteOfSet(cache, rq[r].key, rq[r].result,
                                      CacheTTLOf(rq[r].kind), now))
                ELSE lastWrite
          /\ rq' = [rq EXCEPT ![r].pc = "respond",
                              ![r].wrote = IF out = "ok" THEN "ok"
                                           ELSE "fault"]
    /\ UNCHANGED <<hub, now, pending, last, env, started, reports>>

\* res.json(result)
Respond(r) ==
    /\ rq[r].pc = "respond"
    /\ Continue(r, [rq[r] EXCEPT !.pc = "done", !.status = 200])
    /\ UNCHANGED <<hub, now, cache, pending, lastWrite, env, started, reports>>

Next ==
    \/ \E r \in Slots : GeoStart(r)
    \/ \E r \in Slots : VerifyStart(r)
    \/ \E r \in Slots : OfficialStart(r)
    \/ \E r \in Slots : LazyDelete(r)
    \/ \E r \in Slots : GeoResolve(r)
    \/ \E r \in Slots : VerifyResolve(r)
    \/ \E r \in Slots : ReportUpdate(r)
    \/ \E r \in Slots : OfficialResolve(r)
    \/ \E r \in Slots : CacheWrite(r)
    \/ \E r \in Slots : Respond(r)
    \/ (ClearExpiredCache
        /\ UNCHANGED <<hub, now, pending, last, env, rq, started, reports>>)
    \/ Tick

Spec == Init /\ [][Next]_vars

(***************************************************************************)
(* Steps of the direct calls.                                              *)
(***************************************************************************)
\* await getFromCache(key), up to the return or to the lazy delete
CallGetFromCache ==
    \E key \in CallerKeys, out \in StoreOutcomes :
        LET g == GetFromCacheSelect(cache, key, out, now)
        IN  /\ g.next = "delete" => Suspended < NumCallers
            /\ pending' = IF g.next = "delete"
                          THEN [pending EXCEPT ![key] = @ + 1] ELSE pending
            /\ last' = [op |-> "get", key |-> key, out |-> out,
                        ret |-> g.ret, raised |-> g.raised]
            /\ UNCHANGED <<hub, now, cache, lastWrite, env, rq, started, reports>>

\* the lazy delete of a suspended getFromCache, which then returns null
GetFromCacheDelete ==
    \E key \in CallerKeys, out \in StoreOutcomes :
        /\ pending[key] > 0
        /\ pending' = [pending EXCEPT ![key] = @ - 1]
        /\ cache' = DeleteByKey(cache, key, out)
        /\ lastWrite' = IF cache' # cache
                        THEN Noted(key, WriteOfDelete("lazy")) ELSE lastWrite
        /\ last' = [op |-> "delete", key |-> key, out |-> out,
                    ret |-> Null, raised |-> FALSE]
        /\ UNCHANGED <<hub, now, env, rq, started, reports>>

\* await setCache(key, value, ttlSeconds)
CallSetCache ==
    \E key \in CallerKeys, value \in CallerValues,
       ttl \in CallerTTLs, out \in StoreOutcomes :
        /\ cache' = SetCacheTable(cache, key, value, ttl, out, now)
        /\ lastWrite' = IF out = "ok"
                        THEN Noted(key, WriteOfSet(cache, key, value, ttl, now))
                        ELSE lastWrite
        /\ last' = [op |-> "set", key |-> key, out |-> out,
                    ret |-> Null, raised |-> FALSE]
        /\ UNCHANGED <<hub, now, pending, env, rq, started, reports>>

\* the hourly sweep run directly
\* the hourly sweep run directly; both { error } and a rejection end in
\* logger.warn inside clearExpiredCache
CallClearExpiredCache ==
    \E out \in StoreOutcomes :
        /\ ClearExpiredCacheEnding(out)
        /\ last' = [op |-> "sweep", key |-> "", out |-> out, ret |-> Null,
                    raised |-> FALSE]
        /\ UNCHANGED <<hub, now, pending, env, rq, started, reports>>

NextCache ==
    \/ CallGetFromCache
    \/ GetFromCacheDelete
    \/ CallSetCache
    \/ CallClearExpiredCache
    \/ Tick

\* the direct calls do not read the environment
InitCache == Init /\ env = [gemini |-> FALSE, google_maps |-> FALSE,
                            mapbox |-> FALSE]

SpecCache == InitCache /\ [][NextCache]_vars

(***************************************************************************)
(* sockets/index.js and POST /api/disasters/:id/resources.  inbox[s] is    *)
(* the set of events socket s has been sent.                               *)
(***************************************************************************)
RoomIds == {"d1", "d9"}

\* `disaster_${disasterId}`
RoomOf(disasterId) == "disaster_" \o disasterId

Event(name, disasterId) == [event |-> name, disaster_id |-> disasterId]

\* io.to(room).emit(event): the sockets in the room
EmitToRoom(room, ev) ==
    [s \in SocketIds |->
        IF s \in connected /\ room \in joined[s]
        THEN inbox[s] \cup {ev} ELSE inbox[s]]

\* io.to(every room).emit(event): the sockets that are in some room
EmitToJoined(ev) ==
    [s \in SocketIds |->
        IF s \in connected /\ joined[s] # {}
        THEN inbox[s] \cup {ev} ELSE inbox[s]]

\* io.emit(event): every connected socket
EmitToAll(ev) ==
    [s \in SocketIds |->
        IF s \in connected THEN inbox[s] \cup {ev} ELSE inbox[s]]

\* io.on('connection'): socket.emit('connection_status', ...)
Connect(s) ==
    /\ s \notin connected
    /\ connected' = connected \cup {s}
    /\ joined' = [joined EXCEPT ![s] = {}]
    /\ inbox' = [inbox EXCEPT ![s] = {Event("connection_status", "")}]
    /\ UNCHANGED <<api, resources, disasters>>

\* socket.on('join_disaster')
JoinDisaster(s) ==
    /\ s \in connected
    /\ \E d \in RoomIds : joined' = [joined EXCEPT ![s] = @ \cup {RoomOf(d)}]
    /\ UNCHANGED <<api, connected, inbox, resources, disasters>>

\* socket.on('leave_disaster')
LeaveDisaster(s) ==
    /\ s \in connected
    /\ \E d \in RoomIds : joined' = [joined EXCEPT ![s] = @ \ {RoomOf(d)}]
    /\ UNCHANGED <<api, connected, inbox, resources, disasters>>

\* a disconnect after which the socket stays in its rooms
DisconnectKeepingRooms(s) ==
    /\ s \in connected
    /\ connected' = connected \ {s}
    /\ UNCHANGED <<api, joined, inbox, resources, disasters>>

\* socket.on('disconnect'): the socket has left its rooms
Disconnect(s) ==
    /\ s \in connected
    /\ connected' = connected \ {s}
    /\ joined' = [joined EXCEPT ![s] = {}]
    /\ UNCHANGED <<api, inbox, resources, disasters>>

\* setInterval(() => io.emit('system_heartbeat', ...), 30000)
SystemHeartbeat(t, clientsCount) ==
    [event |-> "system_heartbeat", disaster_id |-> "", timestamp |-> t,
     active_connections |-> clientsCount]

Heartbeat ==
    /\ inbox' = EmitToAll(SystemHeartbeat(now, Cardinality(connected)))
    /\ UNCHANGED <<api, connected, joined, resources, disasters>>

ResourceBodies ==
    {[name |-> JStr("Shelter A"), type |-> JStr("shelter")],
     [name |-> JAbsent, type |-> JStr("shelter")]}

\* insert(resource).select().single(): disaster_id REFERENCES disasters(id)
InsertResource(tbl, row, out) ==
    IF out = "ok" /\ \E d \in DisasterTable : d.id = row.disaster_id
    THEN [error |-> FALSE, tbl |-> Append(tbl, row)]
    ELSE [error |-> TRUE, tbl |-> tbl]

\* POST /api/disasters/:id/resources
CreateResource(disasterId) ==
    /\ Len(resources) < MaxResources
    /\ \E body \in ResourceBodies, out \in StoreOutcomes :
          LET ins == InsertResource(resources,
                        [disaster_id |-> disasterId, name |-> body.name.s,
                         type |-> body.type.s], out)
          IN  IF ~Truthy(body.name) \/ ~Truthy(body.type)
              THEN UNCHANGED <<inbox, resources>>
              ELSE /\ resources' = ins.tbl
                   /\ inbox' = IF ins.error THEN inbox
                               ELSE EmitToAll(
                                      Event("resources_updated", disasterId))
    /\ UNCHANGED <<api, connected, joined, disasters>>

NextHub ==
    \/ \E s \in SocketIds : Connect(s)
    \/ \E s \in SocketIds : JoinDisaster(s)
    \/ \E s \in SocketIds : LeaveDisaster(s)
    \/ \E s \in SocketIds : Disconnect(s)
    \/ \E d \in RoomIds : CreateResource(d)
    \/ Heartbeat
    \/ Tick

SpecHub == InitCache /\ [][NextHub]_vars

(***************************************************************************)
(* Claims about utils/cache.js, checked under SpecCache.  A step of a      *)
(* direct call leaves the clock alone and names itself in last'.op.        *)
(***************************************************************************)
HasExpiredRow(key) == \E row \in RowsFor(cache, key) : row.expires_at < now

\* C6: getFromCache never returns the value of a row whose expires_at is
\* earlier than the current time: the read returns null without raising and
\* goes on to delete the row (the delete, when the store answers it, leaves
\* no row under the key), and a read of a key with no row, such as the read
\* that follows, returns null without raising too.
C6_ExpiredEntryIsMiss ==
    [][/\ (now' = now /\ last'.op = "get"
            /\ (HasExpiredRow(last'.key) \/ RowsFor(cache, last'.key) = {}))
          => (last'.ret = Null /\ ~last'.raised /\ cache' = cache)
       /\ (now' = now /\ last'.op = "get" /\ last'.out = "ok"
            /\ HasExpiredRow(last'.key))
          => pending'[last'.key] = pending[last'.key] + 1
       /\ (now' = now /\ last'.op = "delete" /\ last'.out = "ok")
          => (RowsFor(cache', last'.key) = {} /\ last'.ret = Null
              /\ ~last'.raised)
      ]_vars

\* C6 witness: a read that follows the lazy delete of an expired row misses.
C6_Witness ==
    /\ last.op = "get" /\ last.out = "ok" /\ last.ret = Null
    /\ lastWrite[last.key] = WriteOfDelete("lazy")
    /\ RowsFor(cache, last.key) = {}

\* C7: with the store answering, getFromCache(key) after a completed
\* setCache(key, v, ttlSeconds), before the ttl has elapsed and with no other
\* write to the key in between, returns v.
C7_GetAfterSetReturnsValue ==
    [][(/\ now' = now /\ last'.op = "get" /\ last'.out = "ok"
        /\ lastWrite[last'.key].op = "set"
        /\ now < lastWrite[last'.key].at + lastWrite[last'.key].ttl)
       => (/\ last'.ret = lastWrite[last'.key].value
           /\ ~last'.raised
           /\ pending' = pending)
      ]_vars

\* C7 witness: a read made later than the write, inside the ttl, returned v.
C7_Witness ==
    /\ last.op = "get" /\ last.out = "ok"
    /\ lastWrite[last.key].op = "set"
    /\ lastWrite[last.key].at < now
    /\ now < lastWrite[last.key].at + lastWrite[last.key].ttl
    /\ last.ret = lastWrite[last.key].value

\* C8: setCache(key, value, ttlSeconds), the store answering, leaves exactly
\* one row under the key, with the value of this call and expires_at equal to
\* the current time plus ttlSeconds, whatever row the key had before; the
\* rows of the other keys are untouched.
C8_SetCacheOverwrites ==
    [][(now' = now /\ last'.op = "set" /\ last'.out = "ok")
       => (/\ lastWrite'[last'.key].op = "set"
           /\ RowsFor(cache', last'.key) =
                 {[key |-> last'.key,
                   value |-> lastWrite'[last'.key].value,
                   expires_at |-> now + lastWrite'[last'.key].ttl]}
           /\ \A k \in AllKeys \ {last'.key} :
                 RowsFor(cache', k) = RowsFor(cache, k))
      ]_vars

\* C8 witness: a second setCache on a key that already had a row.
C8_Witness ==
    /\ last.op = "set" /\ last.out = "ok"
    /\ lastWrite[last.key].op = "set" /\ lastWrite[last.key].over
    /\ Cardinality(RowsFor(cache, last.key)) = 1

(***************************************************************************)
(* Claims about the request handlers, checked under Spec.  The step that   *)
(* receives a request adds one to `started`; the request it received is    *)
(* then in a slot, or already answered and in last'.                       *)
(***************************************************************************)
Received == started' = started + 1

ReceivedReq ==
    IF rq' = rq THEN last'.req
    ELSE rq'[CHOOSE r \in Slots : rq'[r] # rq[r]]

\* slot r sends its response in this step
Answers(r) == rq[r].pc # "idle" /\ rq'[r].pc = "idle"

UnexpiredRows(key) == {row \in RowsFor(cache, key) : ~(row.expires_at < now)}

NamespaceTTL(kind) ==
    CASE kind = "geocode" -> GeocodingTTL
      [] kind = "verify" -> VerificationTTL
      [] kind = "official" -> OfficialUpdatesTTL

\* C1 (as stated): every geocode or verify-image request that passes the
\* validation of its body is answered with a result (status 200), never with
\* an error response.
C1_ValidatedRequestNeverErrors ==
    (last.op = "response" /\ last.req.kind \in {"geocode", "verify"}
        /\ last.req.status # 400)
    => last.req.status = 200

C3_CacheHitReturnsStored ==
    [][(/\ Received
        /\ ReceivedReq.key # ""
        /\ ReceivedReq.read # "fault"
        /\ UnexpiredRows(ReceivedReq.key) # {})
       => (/\ rq' = rq
           /\ last'.req.read = "hit"
           /\ last'.req.status = 200
           /\ \E row \in RowsFor(cache, last'.req.key) :
                 last'.req.result = row.value
           /\ last'.req.tried = <<>>
           /\ last'.req.fallback = 0
           /\ last'.req.wrote = "none"
           /\ cache' = cache
           /\ lastWrite' = lastWrite
           /\ reports' = reports)
      ]_vars

\* C3 witness: a geocode request was answered from the cache with the
\* fallback result stored there, mock tag included.
C3_Witness ==
    /\ last.op = "response" /\ last.req.kind = "geocode"
    /\ last.req.read = "hit" /\ last.req.status = 200
    /\ last.req.result = mockLocationExtraction(Text1)
    /\ \E row \in RowsFor(cache, last.req.key) : row.value = last.req.result

\* C4: a request that arrives after a request for the same input has stored
\* its result, before the ttl of that write has elapsed and with the store
\* answering the read, is answered from the cache alone: with the value the
\* first request stored, no provider asked and no fallback run, so providers
\* and fallback ran once in total.
C4_SecondRequestFromCache ==
    [][(/\ Received
        /\ ReceivedReq.key # ""
        /\ ReceivedReq.read # "fault"
        /\ lastWrite[ReceivedReq.key].op = "set"
        /\ now < lastWrite[ReceivedReq.key].at + lastWrite[ReceivedReq.key].ttl)
       => (/\ rq' = rq
           /\ last'.req.status = 200
           /\ last'.req.result = lastWrite[last'.req.key].value
           /\ last'.req.tried = <<>>
           /\ last'.req.fallback = 0
           /\ last'.req.wrote = "none")
      ]_vars

\* C4 witness: the second request came later than the write of the first,
\* inside the ttl, and was answered with the stored value.
C4_Witness ==
    /\ last.op = "response" /\ last.req.read = "hit"
    /\ lastWrite[last.req.key].op = "set"
    /\ 0 < lastWrite[last.req.key].at + lastWrite[last.req.key].ttl - now
    /\ lastWrite[last.req.key].at < now
    /\ last.req.result = lastWrite[last.req.key].value
    /\ started = 2

\* C5: the cache write of a handler that resolved a miss, the store taking
\* it, leaves under the request's key exactly one row, holding the result
\* (from a provider or from the fallback) and expiring at now plus the ttl of
\* the namespace (7200, 3600, 1800 s); the response that follows carries that
\* same result, and no 200 is sent on the miss path before the write was made.
C5_WriteThroughBeforeResponse ==
    [][\A r \in Slots :
         /\ (rq[r].pc = "write" /\ rq'[r].pc = "respond"
                /\ rq'[r].wrote = "ok")
            => RowsFor(cache', rq[r].key) =
                  {[key |-> rq[r].key, value |-> rq[r].result,
                    expires_at |-> now + NamespaceTTL(rq[r].kind)]}
         /\ (Answers(r) /\ last'.req.status = 200)
            => (/\ rq[r].pc = "respond"
                /\ rq[r].wrote # "none"
                /\ last'.req.result = rq[r].result
                /\ last'.req.wrote = rq[r].wrote)
      ]_vars

\* C5 witness: a fallback result was written with the geocoding ttl and the
\* handler is about to respond.
C5_Witness ==
    \E r \in Slots :
        /\ rq[r].pc = "respond" /\ rq[r].wrote = "ok"
        /\ rq[r].kind = "geocode" /\ rq[r].fallback = 1
        /\ RowsFor(cache, rq[r].key) =
              {[key |-> rq[r].key, value |-> rq[r].result,
                expires_at |-> now + GeocodingTTL]}

C10_OnlyRoomMembersReceive ==
    [][\A s \in SocketIds :
         \A ev \in inbox'[s] \ inbox[s] :
            ev.event = "resources_updated"
            => RoomOf(ev.disaster_id) \in joined[s]
      ]_vars

(***************************************************************************)
(* Claims about the validation of the request body, checked under Spec.    *)
(***************************************************************************)
\* C11 (first part): a geocode request with neither text nor description and
\* a verify-image request without image_url is answered 400 in the step that
\* receives it, with no cache read, no cache write, no disaster lookup, no
\* provider call, no fallback and no report update.
C11_RejectedBeforeAnyWork ==
    [][(/\ Received
        /\ ReceivedReq.kind \in {"geocode", "verify"}
        /\ ~Truthy(ReceivedReq.input))
       => (/\ rq' = rq
           /\ last'.req.status = 400
           /\ last'.req.read = "none"
           /\ last'.req.lookup = "none"
           /\ last'.req.tried = <<>>
           /\ last'.req.fallback = 0
           /\ last'.req.wrote = "none"
           /\ last'.req.result = Null
           /\ cache' = cache
           /\ lastWrite' = lastWrite
           /\ reports' = reports)
      ]_vars

\* C11 (as stated): the rejection above happens before any work, and the 400
\* is the only answer of the geocode and verify-image handlers that is not a
\* result.
C11_OnlyRejectionIsValidation ==
    [][/\ (Received /\ ReceivedReq.kind \in {"geocode", "verify"}
              /\ ~Truthy(ReceivedReq.input))
          => (rq' = rq /\ last'.req.status = 400 /\ cache' = cache)
       /\ \A r \in Slots :
            (Answers(r) /\ last'.req.kind \in {"geocode", "verify"})
            => last'.req.status \in {200, 400}
       /\ (Received /\ rq' = rq /\ last'.req.kind \in {"geocode", "verify"})
          => last'.req.status \in {200, 400}
      ]_vars

(***************************************************************************)
(* Direct calls of verifyImageWithGemini, over every score the model may   *)
(* return; `last` records the call.                                        *)
(***************************************************************************)
\* the JSON verdicts and the free-text answers of the vision model
DirectVerdictReplies ==
    [kind : {"json"}, authenticity_score : 0..MaxScore,
     manipulation_detected : BOOLEAN, context_match : BOOLEAN,
     analysis_summary : {"consistent lighting"},
     confidence_level : {"high", "low"}]
    \cup [kind : {"text", "malformed"}, fake : BOOLEAN,
          manipulated : BOOLEAN, edited : {FALSE}, unrelated : BOOLEAN,
          analysis_summary : {"looks fake"}]
    \cup {[kind |-> "error"], [kind |-> "empty"]}

CallVerifyImageWithGemini ==
    /\ \E reply \in DirectVerdictReplies, d \in DisasterTable :
          last' = [op |-> "verdict", reply |-> reply,
                   ret |-> verifyImageWithGemini(env, Url1, d, reply, now)]
    /\ UNCHANGED <<hub, now, cache, pending, lastWrite, env, rq, started,
                   reports>>

InitVerdict == Init /\ env.gemini

NextVerdict ==
    \/ CallVerifyImageWithGemini
    \/ Tick

SpecVerdict == InitVerdict /\ [][NextVerdict]_vars

\* C12: every verdict verifyImageWithGemini returns has the status its score
\* alone determines: 'verified' when the score is above 70, 'suspicious' when
\* it is above 40 and at most 70, 'fake' when it is at most 40; the score is
\* the one the analysis gave.
C12_StatusIsThresholdOfScore ==
    (last.op = "verdict" /\ ~last.ret.threw)
    => LET score == last.ret.value.authenticity_score
           status == last.ret.value.status
       IN  /\ score = AnalysisOf(last.reply).authenticity_score
           /\ score > 70 => status = "verified"
           /\ (40 < score /\ score <= 70) => status = "suspicious"
           /\ score <= 40 => status = "fake"

\* C12 witness: a verdict with the boundary score 70 came back suspicious.
C12_Witness ==
    /\ last.op = "verdict" /\ ~last.ret.threw
    /\ last.reply.kind = "json"
    /\ last.ret.value.authenticity_score = 70
    /\ last.ret.value.status = "suspicious"

\* C23: when the text Gemini generated holds no JSON object, or one that
\* does not parse, verifyImageWithGemini returns a verdict with
\* verification_method 'gemini_api': score 30 and status 'fake' if the text
\* includes 'fake', score 80 and status 'verified' otherwise.
C23_UnparsableTextGivesHeuristicVerdict ==
    (last.op = "verdict" /\ last.reply.kind \in {"text", "malformed"})
    => /\ ~last.ret.threw
       /\ last.ret.value.verification_method = "gemini_api"
       /\ last.reply.fake
          => (/\ last.ret.value.authenticity_score = 30
              /\ last.ret.value.status = "fake")
       /\ ~last.reply.fake
          => (/\ last.ret.value.authenticity_score = 80
              /\ last.ret.value.status = "verified")

\* C23 witness: a text with braces that is no JSON and says 'fake' gave a
\* verdict of 30, 'fake'.
C23_Witness ==
    /\ last.op = "verdict" /\ last.reply.kind = "malformed"
    /\ last.reply.fake /\ ~last.ret.threw
    /\ last.ret.value.authenticity_score = 30
    /\ last.ret.value.status = "fake"
    /\ last.ret.value.confidence_level = "medium"

(***************************************************************************)
(* Claims about the aggregation of official updates, checked under Spec.   *)
(***************************************************************************)
\* slot r runs lines 62-103 of the official-updates handler in this step and
\* its disaster lookup succeeds
Aggregates(r) ==
    /\ rq[r].pc = "resolve" /\ rq[r].kind = "official"
    /\ rq'[r].pc # "resolve" /\ rq'[r].lookup = "ok"

SourceOf(svc) == IF svc = "fema" THEN "FEMA" ELSE "American Red Cross"

ItemsFrom(list, svc) ==
    Cardinality({i \in 1..Len(list) : list[i].source = SourceOf(svc)})

\* C13: when a scraping provider fails during the aggregation of official
\* updates the handler goes on to cache and answer, and the list holds every
\* item each provider that returned gave (as many items of its source as it
\* returned), none of the provider that failed, and nothing else.
C13_ProviderFailureIsLocal ==
    [][\A r \in Slots :
         Aggregates(r)
         => LET calls == rq'[r].calls
                list == rq'[r].result.list
                done == {i \in 1..Len(calls) : calls[i].ev \in {"end", "fail"}}
            IN  /\ rq'[r].pc = "write"
                /\ \A i \in done :
                      /\ calls[i].ev = "fail" => calls[i].items = 0
                      /\ ItemsFrom(list, calls[i].svc) = calls[i].items
                /\ Len(list) = ItemsFrom(list, "fema")
                                 + ItemsFrom(list, "redcross")
                /\ {calls[i].svc : i \in done} = {"fema", "redcross"}
      ]_vars

\* C13 witness: the FEMA scrape failed and the answer, a 200, is the list of
\* the one Red Cross item.
C13_Witness ==
    /\ last.op = "response" /\ last.req.kind = "official"
    /\ last.req.status = 200 /\ last.req.read # "hit"
    /\ \E i \in 1..Len(last.req.calls) :
          last.req.calls[i].svc = "fema" /\ last.req.calls[i].ev = "fail"
    /\ Len(last.req.result.list) = 1
    /\ last.req.result.list[1].source = "American Red Cross"

AllEnvConfigs == [gemini : BOOLEAN, google_maps : BOOLEAN, mapbox : BOOLEAN]

CallGeocodeResolution ==
    /\ \E w \in GeoWorlds, text \in GeoTexts :
          last' = [op |-> "geocode", w |-> w, text |-> text,
                   ret |-> GeocodeResolution(env, text, w)]
    /\ UNCHANGED <<hub, now, cache, pending, lastWrite, env, rq, started,
                   reports>>

InitGeo == env \in AllEnvConfigs /\ InitState

NextGeo ==
    \/ CallGeocodeResolution
    \/ Tick

SpecGeo == InitGeo /\ [][NextGeo]_vars

MappingServices == {"google_maps", "mapbox", "nominatim"}

\* C15: one geocode resolution asks at most one mapping service, the one the
\* configuration alone selects (Google Maps if its key is set, otherwise
\* Mapbox if its key is set, otherwise Nominatim), and asks it exactly when
\* the phrase was extracted; if that service fails the resolution is the
\* mock fallback whatever the other services would have answered, and if it
\* answers the coordinates are its own.
C15_OneConfiguredMapper ==
    (last.op = "geocode")
    => LET tried == last.ret.tried
           asked == {i \in 1..Len(tried) : tried[i] \in MappingServices}
           chosen == IF env.google_maps THEN "google_maps"
                     ELSE IF env.mapbox THEN "mapbox" ELSE "nominatim"
           extracted == env.gemini /\ last.w.gemini = "Manhattan, NYC"
       IN  /\ Cardinality(asked) <= 1
           /\ \A i \in asked : tried[i] = chosen
           /\ (asked # {}) <=> extracted
           /\ (extracted /\ last.w[chosen] = "found")
              => (/\ last.ret.fallback = 0
                  /\ last.ret.result.coordinates.service = chosen)
           /\ ~(extracted /\ last.w[chosen] = "found")
              => (/\ last.ret.fallback = 1
                  /\ last.ret.result = mockLocationExtraction(last.text))

\* C15 witness: Google Maps, the configured choice, failed; Mapbox, also
\* configured, would have answered and was not asked; the result is the mock.
C15_Witness ==
    /\ last.op = "geocode"
    /\ env.gemini /\ env.google_maps /\ env.mapbox
    /\ last.w.gemini = "Manhattan, NYC"
    /\ last.w.google_maps = "error" /\ last.w.mapbox = "found"
    /\ last.ret.tried = <<"gemini", "google_maps">>
    /\ last.ret.result.coordinates.service = "mock"

\* part occurs in chars
ContainsChars(chars, part) ==
    \E i \in 1..(Len(chars) - Len(part) + 1) :
        SubSeq(chars, i, i + Len(part) - 1) = part

PointUnit == 3600

\* priorityScores[post.priority] || 0
PriorityScoreFlat(priority) == 5

PriorityScore(priority) ==
    CASE priority = "urgent" -> 10
      [] priority = "high" -> 7
      [] priority = "medium" -> 5
      [] priority = "low" -> 2
      [] OTHER -> 0

\* post.post.toLowerCase().includes(keyword)
PostIncludes(post, keyword) == keyword \in post.words

\* disaster.location_name.toLowerCase().split(/[,\s]+/)
LocationKeywords(location_name) ==
    CASE location_name = "Manhattan, NYC" -> <<"manhattan", "nyc">>
      [] location_name = "NYC" -> <<"nyc">>
      [] OTHER -> <<>>

Matches(post, keywords) ==
    Cardinality({i \in 1..Len(keywords) : PostIncludes(post, keywords[i])})

\* Math.max(0, 5 - hoursOld), hoursOld = (Date.now() - timestamp) / 3600000
RecencyBonus(post, t) ==
    LET left == 5 * PointUnit - (t - post.timestamp)
    IN  IF left > 0 THEN left ELSE 0

calculateRelevanceScore(post, disaster, t) ==
    PointUnit * (PriorityScore(post.priority)
                 + 5 * Matches(post, disaster.tags)
                 + (IF disaster.location_name # ""
                    THEN 3 * Matches(post, LocationKeywords(disaster.location_name))
                    ELSE 0))
    + RecencyBonus(post, t)

ScoredPosts ==
    [priority : {"urgent", "high", "medium", "low", "none"},
     words : {{}, {"flood"}, {"manhattan"},
              {"flood", "fire", "manhattan", "nyc"}},
     timestamp : {0 - 6 * PointUnit, 0}]

ScoredDisasters ==
    [tags : {<<>>, <<"flood">>, <<"flood", "fire">>},
     location_name : {"", "Manhattan, NYC"}]

NoScoreCall == [some |-> FALSE]

CallCalculateRelevanceScore ==
    /\ \E post \in ScoredPosts, disaster \in ScoredDisasters :
          /\ last.op = "score" => disaster = last.disaster
          /\ last' = [op |-> "score", post |-> post, disaster |-> disaster,
                      at |-> now,
                      ret |-> calculateRelevanceScore(post, disaster, now),
                      before |-> IF last.op = "score"
                                 THEN [some |-> TRUE, post |-> last.post,
                                       at |-> last.at, ret |-> last.ret]
                                 ELSE NoScoreCall]
    /\ UNCHANGED <<hub, now, cache, pending, lastWrite, env, rq, started,
                   reports>>

NextScore ==
    \/ CallCalculateRelevanceScore
    \/ Tick

SpecScore == InitCache /\ [][NextScore]_vars

FullOverlap(post, disaster) ==
    /\ \A i \in 1..Len(disaster.tags) : PostIncludes(post, disaster.tags[i])
    /\ \A i \in 1..Len(LocationKeywords(disaster.location_name)) :
          PostIncludes(post, LocationKeywords(disaster.location_name)[i])

NoOverlap(post, disaster) ==
    /\ \A i \in 1..Len(disaster.tags) : ~PostIncludes(post, disaster.tags[i])
    /\ \A i \in 1..Len(LocationKeywords(disaster.location_name)) :
          ~PostIncludes(post, LocationKeywords(disaster.location_name)[i])

\* C16: of two posts with the same timestamp scored for the same disaster,
\* the one with priority 'urgent' whose body includes every tag and every
\* location keyword gets a strictly higher score than the one with priority
\* 'low' whose body includes none of them, in whichever order they are scored.
C16_UrgentFullBeatsLowNone ==
    (last.op = "score" /\ last.before.some
        /\ last.post.timestamp = last.before.post.timestamp)
    => (/\ (/\ last.post.priority = "urgent"
            /\ FullOverlap(last.post, last.disaster)
            /\ last.before.post.priority = "low"
            /\ NoOverlap(last.before.post, last.disaster))
           => last.ret > last.before.ret
        /\ (/\ last.before.post.priority = "urgent"
            /\ FullOverlap(last.before.post, last.disaster)
            /\ last.post.priority = "low"
            /\ NoOverlap(last.post, last.disaster))
           => last.before.ret > last.ret)

\* C16 witness: for a disaster with no tag and no location the urgent post
\* still scored higher than the low one, both fresh enough for the bonus.
C16_Witness ==
    /\ last.op = "score" /\ last.before.some
    /\ last.disaster = [tags |-> <<>>, location_name |-> ""]
    /\ last.post.priority = "urgent" /\ last.before.post.priority = "low"
    /\ last.post.timestamp = 0 /\ last.before.post.timestamp = 0
    /\ last.before.at < last.at
    /\ last.ret > last.before.ret

\* C17 (as stated): two calls of calculateRelevanceScore with the same post
\* and the same disaster return the same score whenever they are made.
C17_ScoreIsDeterministic ==
    (last.op = "score" /\ last.before.some /\ last.post = last.before.post)
    => last.ret = last.before.ret

(***************************************************************************)
(* The sweep (under SpecCache).                                            *)
(***************************************************************************)
\* the step is one run of clearExpiredCache
SweepRuns == last'.op = "sweep" /\ now' = now

\* the step is part of a getFromCache or a setCache, the only calls the
\* request handlers make to the cache
CacheCallRuns == last'.op \in {"get", "delete", "set"} /\ now' = now

\* C18: a run of clearExpiredCache that the store answers leaves exactly the
\* rows that have not expired (expires_at not earlier than now), unchanged;
\* a run that the store fails changes nothing; neither raises; and a call of
\* getFromCache or setCache, which is all a request handler does to the
\* cache, removes rows of its own key only, so the sweep is the timer's alone.
C18_SweepRemovesExactlyExpired ==
    [][/\ SweepRuns =>
            /\ ~last'.raised
            /\ cache' = IF last'.out = "ok"
                        THEN {row \in cache : ~(row.expires_at < now)}
                        ELSE cache
            /\ pending' = pending
       /\ CacheCallRuns =>
            \A row \in cache \ cache' : row.key = last'.key]_vars

\* C18 witness: a sweep has just removed the expired row of one key and kept
\* the row of the other key, which expires at this very instant.
C18_Witness ==
    /\ last.op = "sweep" /\ last.out = "ok"
    /\ lastWrite["official_updates_d1"] = WriteOfDelete("sweep")
    /\ RowsFor(cache, "official_updates_d1") = {}
    /\ \E row \in cache : row.expires_at = now

C20_HeartbeatReachesAllConnected ==
    [][\A s \in SocketIds :
         \A ev \in inbox'[s] \ inbox[s] :
            ev.event = "system_heartbeat"
            => /\ \A t \in connected : ev \in inbox'[t]
               /\ ev.timestamp = now
               /\ ev.active_connections = Cardinality(connected)
      ]_vars

\* C20 witness: two sockets are connected, one in a room and one in none,
\* and both hold the heartbeat emitted now that counts two connections.
C20_Witness ==
    /\ connected = SocketIds
    /\ now > 0
    /\ \E s \in SocketIds : joined[s] = {}
    /\ \E s \in SocketIds : joined[s] # {}
    /\ \A s \in SocketIds : SystemHeartbeat(now, 2) \in inbox[s]

(***************************************************************************)
(* routes/socialMedia.js: GET /api/disasters/:id/social-media.  The mock   *)
(* posts are stamped when the module is loaded, env.boot; of a post body   *)
(* and of its keywords the model keeps which of the tags and location      *)
(* keywords of the disasters they include.                                 *)
(***************************************************************************)
SocialMediaTTL == 3600

BootTimes == {0 - 5 * PointUnit, 0}

mockSocialMediaPosts(boot) ==
    <<[id |-> "1", priority |-> "high", timestamp |-> boot - 30 * 60,
       words |-> {"flood", "food", "nyc"}, keytags |-> {"flood", "food"}],
      [id |-> "2", priority |-> "medium", timestamp |-> boot - 45 * 60,
       words |-> {"flood", "shelter"}, keytags |-> {"shelter"}],
      [id |-> "3", priority |-> "urgent", timestamp |-> boot - 15 * 60,
       words |-> {"manhattan"}, keytags |-> {}],
      [id |-> "4", priority |-> "high", timestamp |-> boot - 60 * 60,
       words |-> {"shelter"}, keytags |-> {"shelter"}]>>

\* disaster.location_name.toLowerCase().split(',')[0]
FirstLocationPart(location_name) ==
    CASE location_name = "Manhattan, NYC" -> "manhattan"
      [] OTHER -> location_name

\* the predicate of mockSocialMediaPosts.filter
IsRelevantPost(post, disaster) ==
    \/ /\ disaster.location_name # ""
       /\ PostIncludes(post, FirstLocationPart(disaster.location_name))
    \/ \E i \in 1..Len(disaster.tags) :
          \/ PostIncludes(post, disaster.tags[i])
          \/ disaster.tags[i] \in post.keytags

RECURSIVE RelevantPosts(_, _)
RelevantPosts(posts, disaster) ==
    IF posts = <<>> THEN <<>>
    ELSE IF IsRelevantPost(Head(posts), disaster)
    THEN <<Head(posts)>> \o RelevantPosts(Tail(posts), disaster)
    ELSE RelevantPosts(Tail(posts), disaster)

\* { ...post, relevance_score, disaster_id }
ProcessedPost(post, disaster, t) ==
    [id |-> post.id, priority |-> post.priority, timestamp |-> post.timestamp,
     relevance_score |-> calculateRelevanceScore(post, disaster, t),
     disaster_id |-> disaster.id]

\* x goes before the first element that scores as much or less
InsertByScoreBeforeEquals(x, sorted) ==
    LET lower == {i \in 1..Len(sorted) :
                     sorted[i].relevance_score <= x.relevance_score}
        at == IF lower = {} THEN Len(sorted) + 1
              ELSE CHOOSE i \in lower : \A j \in lower : i <= j
    IN  SubSeq(sorted, 1, at - 1) \o <<x>> \o SubSeq(sorted, at, Len(sorted))

\* x goes after every element that scores at least as much: a stable sort
InsertByScore(x, sorted) ==
    LET lower == {i \in 1..Len(sorted) :
                     sorted[i].relevance_score < x.relevance_score}
        at == IF lower = {} THEN Len(sorted) + 1
              ELSE CHOOSE i \in lower : \A j \in lower : i <= j
    IN  SubSeq(sorted, 1, at - 1) \o <<x>> \o SubSeq(sorted, at, Len(sorted))

\* .sort((a, b) => b.relevance_score - a.relevance_score)
RECURSIVE SortByRelevance(_)
SortByRelevance(seq) ==
    IF seq = <<>> THEN <<>>
    ELSE InsertByScore(seq[Len(seq)],
                       SortByRelevance(SubSeq(seq, 1, Len(seq) - 1)))

\* lines 70-88: filter, map, sort
ProcessedPosts(disaster, boot, t) ==
    LET relevant == RelevantPosts(mockSocialMediaPosts(boot), disaster)
    IN  SortByRelevance([i \in 1..Len(relevant) |->
                            ProcessedPost(relevant[i], disaster, t)])

SocialKey(disasterId) == "social_media_" \o disasterId

SocialIds == {"d1", "d2", "d9"}

\* the whole handler; read, lazy, lookup and write are how its calls to the
\* store end
GetSocialMedia ==
    \E id \in SocialIds, read \in StoreOutcomes, lazy \in StoreOutcomes,
       lookup \in StoreOutcomes, write \in StoreOutcomes :
        LET key == SocialKey(id)
            g == GetFromCacheSelect(cache, key, read, now)
            tbl == IF g.next = "delete" THEN DeleteByKey(cache, key, lazy)
                   ELSE cache
            d == SelectDisaster(id, lookup)
            posts == [list |-> ProcessedPosts(d.data, env.boot, now)]
            answer(how, status, result) ==
                [op |-> "social", id |-> id, read |-> how,
                 status |-> status, result |-> result, at |-> now]
        IN  /\ IF g.ret # Null
               THEN /\ last' = answer("hit", 200, g.ret)
                    /\ UNCHANGED <<cache, inbox>>
               ELSE IF lookup = "throw" \/ d.error
               THEN /\ last' = answer("miss", 500, Null)
                    /\ cache' = tbl
                    /\ UNCHANGED inbox
               ELSE /\ last' = answer("miss", 200, posts)
                    /\ cache' = SetCacheTable(tbl, key, posts, SocialMediaTTL,
                                              write, now)
                    /\ inbox' = EmitToAll(Event("social_media_updated", id))
            /\ UNCHANGED <<now, pending, lastWrite, env, rq, started, reports,
                           connected, joined, resources, disasters>>

BootConfigs ==
    [gemini : {FALSE}, google_maps : {FALSE}, mapbox : {FALSE},
     boot : BootTimes]

InitSocial == env \in BootConfigs /\ InitState

NextSocial ==
    \/ GetSocialMedia
    \/ \E s \in SocketIds : Connect(s)
    \/ Tick

SpecSocial == InitSocial /\ [][NextSocial]_vars

\* the place of post id in mockSocialMediaPosts
InputPlace(id) ==
    CHOOSE i \in 1..4 : mockSocialMediaPosts(0)[i].id = id

\* C22: the list answered on a cache miss holds the relevant posts, each
\* once, in non-increasing order of relevance_score, and of two posts with
\* equal scores the one that comes first in mockSocialMediaPosts comes first.
C22_SortedDescendingStable ==
    (last.op = "social" /\ last.read = "miss" /\ last.status = 200)
    => LET out == last.result.list
           d == CHOOSE x \in DisasterTable : x.id = last.id
           relevant == RelevantPosts(mockSocialMediaPosts(env.boot), d)
       IN  /\ Len(out) = Len(relevant)
           /\ {out[i].id : i \in 1..Len(out)}
                = {relevant[i].id : i \in 1..Len(relevant)}
           /\ \A i \in 1..Len(out) : \A j \in (i + 1)..Len(out) :
                 /\ out[i].relevance_score >= out[j].relevance_score
                 /\ out[i].relevance_score = out[j].relevance_score
                    => InputPlace(out[i].id) < InputPlace(out[j].id)

\* C22 witness: a miss answered with three posts of which the first two,
\* posts 1 and 4, score the same and the third scores less.
C22_Witness ==
    /\ last.op = "social" /\ last.read = "miss" /\ last.status = 200
    /\ Len(last.result.list) = 3
    /\ last.result.list[1].id = "1" /\ last.result.list[2].id = "4"
    /\ last.result.list[1].relevance_score
         = last.result.list[2].relevance_score
    /\ last.result.list[3].relevance_score
         < last.result.list[2].relevance_score

(***************************************************************************)
(* Claims about overlapping calls and requests.                            *)
(***************************************************************************)
\* C24 (as stated), under SpecCache: the lazy delete of a getFromCache only
\* ever removes a row that has expired, never a row that setCache upserted
\* after the getFromCache read the expired one.
C24_LazyDeleteRemovesOnlyExpired ==
    [][(last'.op = "delete" /\ now' = now)
       => \A row \in cache \ cache' : row.expires_at < now]_vars

\* C25 (as stated), under Spec: when two geocode or verify-image requests
\* for the same input overlap, the resolution (providers, fallback) runs for
\* one of them at most, and what each holds to answer is the same result.
C25_OverlappingRequestsResolveOnce ==
    \A r \in Slots, q \in Slots :
        (/\ r < q
         /\ rq[r].kind \in {"geocode", "verify"}
         /\ rq[r].key # "" /\ rq[r].key = rq[q].key
         /\ rq[r].result # Null /\ rq[q].result # Null)
        => /\ rq[r].result = rq[q].result
           /\ \/ rq[r].tried = <<>> /\ rq[r].fallback = 0
              \/ rq[q].tried = <<>> /\ rq[q].fallback = 0

(***************************************************************************)
(* Claims about the verification results, checked under Spec.              *)
(***************************************************************************)
\* C26 (as stated): after a verify-image request with a report_id is
\* answered 200, its report update not having failed, the report holds the
\* status and the result that were answered, whether the result came from
\* Gemini, from the mock or from the cache.
C26_ReportHoldsAnsweredResult ==
    (/\ last.op = "response"
     /\ last.req.kind = "verify" /\ last.req.status = 200
     /\ last.req.report_id # "" /\ last.req.reported # "fault")
    => /\ reports[last.req.report_id].verification_status
            = last.req.result.status
       /\ reports[last.req.report_id].verification_details = last.req.result

ThresholdStatuses == {"verified", "suspicious", "fake"}

\* C27 (as stated): every result verify-image answers has the status the
\* 70/40 thresholds give its authenticity_score, whether Gemini or
\* mockImageVerification made it.
C27_EveryResultFollowsThresholds ==
    (/\ last.op = "response"
     /\ last.req.kind = "verify" /\ last.req.status = 200)
    => LET score == last.req.result.authenticity_score
           status == last.req.result.status
       IN  /\ status \in ThresholdStatuses
           /\ status = "verified" => score > 70
           /\ status = "suspicious" => (40 < score /\ score <= 70)
           /\ status = "fake" => score <= 40

(***************************************************************************)
(* Claim about the static set of official updates.                         *)
(***************************************************************************)
\* C28 (as stated): the branch that serves the static set is reachable: for
\* some disaster and some answer of fema.gov every scraping provider
\* contributes no item and the handler resolves to the static set.
C28_StaticSetIsReachable ==
    \E d \in DisasterTable, reply \in FemaReplies, lucky \in LuckyDraws :
        LET x == OfficialResolution(d, reply, lucky, now)
        IN  /\ x.fallback = 1
            /\ x.result.list = SortNewestFirst(MockUpdatesFor(d, lucky))

(***************************************************************************)
(* routes/disasters.js: POST /, PUT /:id, DELETE /:id behind authenticate. *)
(* A handler step runs from one await of the store to the next.            *)
(***************************************************************************)
MaxDisasters == 3

\* the Authorization headers tried: none, the three mock users, a name that
\* is no mock user, and a name every JavaScript object answers to
AuthHeaders ==
    {"", "Bearer netrunnerX", "Bearer reliefAdmin", "Bearer citizen1",
     "Bearer mallory", "Bearer constructor"}

\* authHeader ? authHeader.replace('Bearer ', '') : 'citizen1'
UserIdOf(authHeader) ==
    CASE authHeader = "" -> "citizen1"
      [] authHeader = "Bearer netrunnerX" -> "netrunnerX"
      [] authHeader = "Bearer reliefAdmin" -> "reliefAdmin"
      [] authHeader = "Bearer citizen1" -> "citizen1"
      [] authHeader = "Bearer mallory" -> "mallory"
      [] authHeader = "Bearer constructor" -> "constructor"

mockUsers ==
    {[id |-> "netrunnerX", role |-> "admin"],
     [id |-> "reliefAdmin", role |-> "admin"],
     [id |-> "citizen1", role |-> "contributor"]}

\* Object.prototype.constructor, which mockUsers['constructor'] finds: it
\* is truthy and has neither id nor role
ObjectConstructor == [id |-> "(undefined)", role |-> "(undefined)"]

\* mockUsers[userId]: an own property, or one inherited from Object.prototype
MockUserLookup(userId) ==
    IF \E u \in mockUsers : u.id = userId
    THEN {u \in mockUsers : u.id = userId}
    ELSE IF userId = "constructor" THEN {ObjectConstructor} ELSE {}

\* req.user = mockUsers[userId] || mockUsers['citizen1']
authenticate(authHeader) ==
    LET found == MockUserLookup(UserIdOf(authHeader))
    IN  IF found # {} THEN CHOOSE u \in found : TRUE
        ELSE CHOOSE u \in mockUsers : u.id = "citizen1"

\* !(existing.owner_id !== req.user.id && req.user.role !== 'admin')
MayModify(existing, user) ==
    existing.owner_id = user.id \/ user.role = "admin"

DisasterEvent(action, row) ==
    [event |-> "disaster_updated", disaster_id |-> row.id, action |-> action]

\* an emit that does not wait for the store's answer
EmitRegardless(ok, ev) == EmitToAll(ev)

\* if (error) throw error; req.io.emit(...)
EmitAfter(ok, ev) == IF ok THEN EmitToAll(ev) ELSE inbox

\* .from('disasters').select('*').eq('id', id).single()
FetchDisaster(tbl, id, out) ==
    LET rows == {d \in tbl : d.id = id}
    IN  IF out = "ok" /\ Cardinality(rows) = 1
        THEN [error |-> FALSE, data |-> CHOOSE d \in rows : TRUE]
        ELSE [error |-> TRUE, data |-> Null]

\* uuidv4()
FreshId(tbl) ==
    CHOOSE id \in {"n1", "n2", "n3"} : \A d \in tbl : d.id # id

TitleBodies == {JStr("Harbor Flood"), JAbsent}

\* POST /api/disasters: one await, the insert; owner_id is NOT NULL
CreateDisaster(r) ==
    /\ MayStart(r)
    /\ Cardinality(disasters) < MaxDisasters
    /\ \E auth \in AuthHeaders, title \in TitleBodies, out \in StoreOutcomes :
          LET user == authenticate(auth)
              req == [IdleRequest EXCEPT !.kind = "create", !.auth = auth,
                                         !.user = user, !.input = title]
              row == [id |-> FreshId(disasters), title |-> title.s,
                      owner_id |-> user.id,
                      audit_trail |-> <<[action |-> "create",
                                         user_id |-> user.id]>>]
              ok == out = "ok" /\ user.id # "(undefined)"
          IN  IF ~Truthy(title)
              THEN /\ Continue(r, Rejected(req, 400))
                   /\ UNCHANGED <<disasters, inbox>>
              ELSE /\ disasters' = IF ok THEN disasters \cup {row}
                                   ELSE disasters
                   /\ inbox' = EmitAfter(ok, DisasterEvent("create", row))
                   /\ Continue(r, [req EXCEPT
                                     !.pc = "done", !.id = row.id,
                                     !.wrote = IF ok THEN "ok" ELSE "fault",
                                     !.status = IF ok THEN 201 ELSE 500])
    /\ started' = started + 1
    /\ UNCHANGED <<now, cache, pending, lastWrite, env, reports, connected,
                   joined, resources>>

ModifyIds == {"d1", "d2", "d9"}

\* PUT and DELETE up to the ownership check: lines 113-126 and 167-180
ModifyStart(r, kind) ==
    /\ MayStart(r)
    /\ \E auth \in AuthHeaders, id \in ModifyIds, title \in TitleBodies,
          out \in StoreOutcomes :
          LET user == authenticate(auth)
              f == FetchDisaster(disasters, id, out)
              req == LookupResult(
                       [IdleRequest EXCEPT !.kind = kind, !.auth = auth,
                                           !.user = user, !.id = id,
                                           !.input = title], f, out)
          IN  Continue(r,
                IF req.lookup # "ok" THEN req
                ELSE IF ~MayModify(f.data, user) THEN Rejected(req, 403)
                ELSE [req EXCEPT !.pc = "mutate", !.result = f.data])
    /\ started' = started + 1
    /\ UNCHANGED <<hub, now, cache, pending, lastWrite, env, reports>>

PutStart(r) == ModifyStart(r, "put")

DeleteStart(r) == ModifyStart(r, "delete")

\* PUT, lines 128-157: .update(updates).eq('id', id).select().single()
PutUpdate(r) ==
    /\ rq[r].pc = "mutate" /\ rq[r].kind = "put"
    /\ \E out \in StoreOutcomes :
          LET rows == {d \in disasters : d.id = rq[r].id}
              ok == out = "ok" /\ rows # {}
              title == IF Truthy(rq[r].input) THEN rq[r].input.s
                       ELSE (CHOOSE d \in rows : TRUE).title
              row == [id |-> rq[r].id, title |-> title,
                      owner_id |-> rq[r].result.owner_id,
                      audit_trail |->
                         Append(rq[r].result.audit_trail,
                                [action |-> "update",
                                 user_id |-> rq[r].user.id])]
          IN  /\ disasters' = IF ok THEN (disasters \ rows) \cup {row}
                              ELSE disasters
              /\ inbox' = EmitAfter(ok, DisasterEvent("update", rq[r].result))
              /\ Continue(r, [rq[r] EXCEPT
                                !.pc = "done",
                                !.wrote = IF ok THEN "ok" ELSE "fault",
                                !.status = IF ok THEN 200 ELSE 500])
    /\ UNCHANGED <<now, cache, pending, lastWrite, env, started, reports,
                   connected, joined, resources>>

\* DELETE, lines 182-193: .delete().eq('id', id)
DeleteFinish(r) ==
    /\ rq[r].pc = "mutate" /\ rq[r].kind = "delete"
    /\ \E out \in StoreOutcomes :
          LET rows == {d \in disasters : d.id = rq[r].id}
              ok == out = "ok"
          IN  /\ disasters' = IF ok THEN disasters \ rows ELSE disasters
              /\ inbox' = EmitAfter(ok, DisasterEvent("delete", rq[r].result))
              /\ Continue(r, [rq[r] EXCEPT
                                !.pc = "done",
                                !.wrote = IF ok THEN "ok" ELSE "fault",
                                !.status = IF ok THEN 200 ELSE 500])
    /\ UNCHANGED <<now, cache, pending, lastWrite, env, started, reports,
                   connected, joined, resources>>

NextDisasters ==
    \/ \E r \in Slots : CreateDisaster(r)
    \/ \E r \in Slots : PutStart(r)
    \/ \E r \in Slots : DeleteStart(r)
    \/ \E r \in Slots : PutUpdate(r)
    \/ \E r \in Slots : DeleteFinish(r)
    \/ \E d \in RoomIds : CreateResource(d)
    \/ \E s \in SocketIds : Connect(s)

SpecDisasters == InitCache /\ [][NextDisasters]_vars

(***************************************************************************)
(* Claims about the CRUD handlers, checked under SpecDisasters.            *)
(***************************************************************************)
RecognisedHeaders ==
    {"Bearer netrunnerX", "Bearer reliefAdmin", "Bearer citizen1"}

Citizen1 == CHOOSE u \in mockUsers : u.id = "citizen1"

\* a PUT or DELETE is received in this step by a user who is neither the
\* owner of the disaster it names nor an admin, and the disaster is fetched
RefusedModify ==
    /\ Received
    /\ ReceivedReq.kind \in {"put", "delete"}
    /\ ReceivedReq.lookup = "ok"
    /\ ReceivedReq.user.role # "admin"
    /\ \A d \in disasters :
          d.id = ReceivedReq.id => d.owner_id # ReceivedReq.user.id

\* C29 (first part): a PUT or DELETE by a user who is neither the owner nor
\* an admin is answered 403 in the step that receives it, with the table and
\* every inbox unchanged; and a request that goes on to its update or delete
\* is by the owner or by an admin, who gave an admin's name.
C29_NonOwnerIsRefused ==
    [][/\ RefusedModify
          => /\ ReceivedReq.status = 403 /\ ReceivedReq.pc = "done"
             /\ disasters' = disasters /\ inbox' = inbox
       /\ \A r \in Slots :
             rq'[r].pc = "mutate"
             => /\ \/ rq'[r].result.owner_id = rq'[r].user.id
                   \/ rq'[r].user.role = "admin"
                /\ rq'[r].user.role = "admin"
                   => rq'[r].auth \in RecognisedHeaders
      ]_vars

\* C29 (as stated): besides the first part, a request whose Authorization
\* header is missing or names no mock user is handled as the contributor
\* citizen1, never as an admin.
C29_UnknownCallerIsCitizen1 ==
    [][/\ RefusedModify
          => /\ ReceivedReq.status = 403
             /\ disasters' = disasters /\ inbox' = inbox
       /\ (/\ Received
           /\ ReceivedReq.kind \in {"create", "put", "delete"}
           /\ ReceivedReq.auth \notin RecognisedHeaders)
          => /\ ReceivedReq.user = Citizen1
             /\ ReceivedReq.user.role # "admin"
      ]_vars

\* a request is answered in this step; last' is its response
Completes == (\E r \in Slots : Answers(r)) \/ (Received /\ rq' = rq)

ActionOf(kind) ==
    CASE kind = "create" -> "create"
      [] kind = "put" -> "update"
      [] kind = "delete" -> "delete"

=============================================================================
